---------------------------- MODULE Spec2Model ----------------------------
(***************************************************************************)
(* A model of src/src/pwm.rs: the PWM struct, its constructor and its five *)
(* operations (set_export, set_period, set_state, write, set_duty_cycle),  *)
(* together with the sysfs tree they talk to.                              *)
(*                                                                         *)
(* Numbers.  TLC's integers are 32-bit signed, so a u32 is kept as two     *)
(* 16-bit limbs <<hi, lo>> and an f32 as sign, 24-bit significand and      *)
(* exponent; every intermediate value of the arithmetic below stays under  *)
(* 2^31.  The f32 operations round to nearest, ties to even, as IEEE 754   *)
(* binary32 does.                                                          *)
(***************************************************************************)
EXTENDS Integers, Sequences, FiniteSets, TLC

VARIABLES
  pwm_chip_num,   \* PWM.pwm_chip_num : u8
  pwm_num,        \* PWM.pwm_num      : u8
  period,         \* PWM.period       : u32, as <<hi, lo>>
  duty_cycle,     \* PWM.duty_cycle   : u32, as <<hi, lo>>
  state,          \* PWM.state        : "Enabled" | "Disabled"
  sysfs,          \* the channel directories that exist under /sys/class/pwm
  calls,          \* the calls made so far, each with its result and its writes
  pc              \* where each caller of set_export stands inside the call

vars ==
  <<pwm_chip_num, pwm_num, period, duty_cycle, state, sysfs, calls, pc>>

-----------------------------------------------------------------------------
(* u32 *)

Limb == 65536

U32Of(n) == <<n \div Limb, n % Limb>>

U32Zero == <<0, 0>>

U32Max == <<Limb - 1, Limb - 1>>

U32Lt(a, b) == a[1] < b[1] \/ (a[1] = b[1] /\ a[2] < b[2])

U32Le(a, b) == a = b \/ U32Lt(a, b)

-----------------------------------------------------------------------------
(* Display for the unsigned integers: the decimal digits, most significant *)
(* first, no sign, no padding.                                             *)

DigitChar(d) ==
  CASE d = 0 -> "0" [] d = 1 -> "1" [] d = 2 -> "2" [] d = 3 -> "3"
    [] d = 4 -> "4" [] d = 5 -> "5" [] d = 6 -> "6" [] d = 7 -> "7"
    [] d = 8 -> "8" [] d = 9 -> "9"

RECURSIVE U8ToString(_)
U8ToString(n) ==
  IF n < 10 THEN <<DigitChar(n)>>
  ELSE Append(U8ToString(n \div 10), DigitChar(n % 10))

\* <<hi, lo>> divided by ten: the quotient's limbs and the remainder.
U32DivMod10(u) ==
  LET t == (u[1] % 10) * Limb + u[2]
  IN  [q |-> <<u[1] \div 10, t \div 10>>, r |-> t % 10]

RECURSIVE U32ToString(_)
U32ToString(u) ==
  LET d == U32DivMod10(u)
  IN  IF d.q = U32Zero THEN <<DigitChar(d.r)>>
      ELSE Append(U32ToString(d.q), DigitChar(d.r))

-----------------------------------------------------------------------------
(* f32.  A finite value is (-1)^neg * m * 2^e with m < 2^24; it is normal  *)
(* when m >= 2^23 (then -149 <= e <= 104) and subnormal or zero when       *)
(* m < 2^23 (then e = -149).                                               *)

MantBits == 24

EMin == -149

EMax == 104

Pow2(k) == 2 ^ k

Hidden == Pow2(MantBits - 1)

F32Num(neg, m, e) == [cls |-> "num", neg |-> neg, m |-> m, e |-> e]

F32Inf(neg) == [cls |-> "inf", neg |-> neg, m |-> 0, e |-> 0]

F32NaN == [cls |-> "nan", neg |-> FALSE, m |-> 0, e |-> 0]

F32Zero(neg) == F32Num(neg, 0, EMin)

\* m * 2^e with m > 0 brought to a 24-bit significand (the exponent may
\* leave the f32 range: RoundPack brings it back).
RECURSIVE Normalize(_, _)
Normalize(m, e) ==
  IF m >= Hidden THEN [m |-> m, e |-> e] ELSE Normalize(2 * m, e - 1)

\* How the discarded part compares with half a unit in the last place is one
\* of "exact" (nothing discarded), "below", "half" and "above".
RoundUp(m, r) == r = "above" \/ (r = "half" /\ m % 2 = 1)

\* The f32 nearest to (-1)^neg * (m + discarded) * 2^e, where m is a 24-bit
\* significand and r says how the discarded part compares with a half.
RoundPack(neg, m, e, r) ==
  IF e >= EMin
  THEN LET m1 == IF RoundUp(m, r) THEN m + 1 ELSE m
           m2 == IF m1 = 2 * Hidden THEN Hidden ELSE m1
           e2 == IF m1 = 2 * Hidden THEN e + 1 ELSE e
       IN  IF e2 > EMax THEN F32Inf(neg) ELSE F32Num(neg, m2, e2)
  ELSE LET k  == EMin - e
       IN  IF k > MantBits
           THEN F32Zero(neg)
           ELSE LET q    == m \div Pow2(k)
                    low  == m % Pow2(k)
                    half == Pow2(k - 1)
                    r2   == IF low > half THEN "above"
                            ELSE IF low = half
                                 THEN (IF r = "exact" THEN "half" ELSE "above")
                                 ELSE (IF low = 0 /\ r = "exact" THEN "exact"
                                       ELSE "below")
                IN  F32Num(neg, IF RoundUp(q, r2) THEN q + 1 ELSE q, EMin)

\* An f32 literal n * 2^e, n < 2^24, exactly representable.
F32Lit(neg, n, e) ==
  IF n = 0 THEN F32Zero(neg)
  ELSE LET x == Normalize(n, e) IN RoundPack(neg, x.m, x.e, "exact")

-----------------------------------------------------------------------------
(* The f32 operations of PWM::write, in the order it applies them.         *)

\* The number of bits of n > 0.
RECURSIVE BitLen(_)
BitLen(n) == IF n = 0 THEN 0 ELSE 1 + BitLen(n \div 2)

\* `self.period as f32`: the nearest f32 to a u32.
F32FromU32(u) ==
  IF u = U32Zero THEN F32Zero(FALSE)
  ELSE IF u[1] < Pow2(MantBits - 16)
  THEN \* under 2^24: exact
       LET x == Normalize(u[1] * Limb + u[2], 0)
       IN  RoundPack(FALSE, x.m, x.e, "exact")
  ELSE LET s    == BitLen(u[1]) + 16 - MantBits      \* 1..8 bits to drop
           m    == u[1] * Pow2(16 - s) + u[2] \div Pow2(s)
           low  == u[2] % Pow2(s)
           half == Pow2(s - 1)
           r    == IF low = 0 THEN "exact"
                   ELSE IF low < half THEN "below"
                   ELSE IF low = half THEN "half" ELSE "above"
       IN  RoundPack(FALSE, m, s, r)

\* `percentage / 100.0`: 100 = 25 * 2^2, so the significand is divided by
\* 25 after a shift that leaves a 24-bit quotient; 25 being odd, the
\* remainder is never exactly a half.
F32DivBy100(a) ==
  IF a.cls = "nan" THEN F32NaN
  ELSE IF a.cls = "inf" THEN F32Inf(a.neg)
  ELSE IF a.m = 0 THEN F32Zero(a.neg)
  ELSE LET x   == Normalize(a.m, a.e)
           k   == IF (x.m * 16) \div 25 >= Hidden THEN 4 ELSE 5
           n   == x.m * Pow2(k)
           q   == n \div 25
           rem == n % 25
           r   == IF rem = 0 THEN "exact"
                  ELSE IF 2 * rem < 25 THEN "below" ELSE "above"
       IN  RoundPack(a.neg, q, x.e - 2 - k, r)

\* a * b: the 48-bit product of the significands from 12-bit halves, then
\* its leading 24 bits rounded by the rest.
F32Mul(a, b) ==
  IF a.cls = "nan" \/ b.cls = "nan" THEN F32NaN
  ELSE IF a.cls = "inf" \/ b.cls = "inf"
  THEN (IF (a.cls = "num" /\ a.m = 0) \/ (b.cls = "num" /\ b.m = 0)
        THEN F32NaN
        ELSE F32Inf(a.neg # b.neg))
  ELSE IF a.m = 0 \/ b.m = 0 THEN F32Zero(a.neg # b.neg)
  ELSE LET x   == Normalize(a.m, a.e)
           y   == Normalize(b.m, b.e)
           B   == Pow2(12)
           x1  == x.m \div B
           x0  == x.m % B
           y1  == y.m \div B
           y0  == y.m % B
           mid == x1 * y0 + x0 * y1
           lo  == x0 * y0 + (mid % B) * B
           L   == lo % Pow2(24)                        \* the low 24 bits
           H   == x1 * y1 + mid \div B + lo \div Pow2(24) \* the high 22..24 bits
           big == H >= Hidden                           \* a 48-bit product
           m   == IF big THEN H ELSE 2 * H + L \div Hidden
           low == IF big THEN L ELSE L % Hidden
           hlf == IF big THEN Hidden ELSE Hidden \div 2
           r   == IF low = 0 THEN "exact"
                  ELSE IF low < hlf THEN "below"
                  ELSE IF low = hlf THEN "half" ELSE "above"
       IN  RoundPack(a.neg # b.neg, m, x.e + y.e + (IF big THEN 24 ELSE 23), r)

\* `x as u32`: the value truncated toward zero and saturated to the range
\* of u32; NaN gives 0 (the cast as Rust defines it since 1.45).
F32AsU32(a) ==
  IF a.cls = "nan" THEN U32Zero
  ELSE IF a.neg THEN U32Zero
  ELSE IF a.cls = "inf" THEN U32Max
  ELSE IF a.m = 0 THEN U32Zero
  ELSE IF a.e >= 0
  THEN (IF BitLen(a.m) + a.e > 32
        THEN U32Max
        ELSE <<a.m \div Pow2(16 - a.e), (a.m % Pow2(16 - a.e)) * Pow2(a.e)>>)
  ELSE (IF -a.e >= MantBits THEN U32Zero
        ELSE U32Of(a.m \div Pow2(-a.e)))

-----------------------------------------------------------------------------
(* Where a percentage lies.                                                *)

Hundred == F32Lit(FALSE, 100, 0)

\* |a| < |b| for finite non-zero a and b.
MagLess(a, b) ==
  LET x == Normalize(a.m, a.e)
      y == Normalize(b.m, b.e)
  IN  x.e < y.e \/ (x.e = y.e /\ x.m < y.m)

\* 0 <= p <= 100
InPercentRange(p) ==
  /\ p.cls = "num"
  /\ p.m = 0 \/ (~p.neg /\ ~MagLess(Hundred, p))

\* p > 100
Above100(p) ==
  \/ p.cls = "inf" /\ ~p.neg
  \/ p.cls = "num" /\ ~p.neg /\ p.m > 0 /\ MagLess(Hundred, p)

\* p < 0
Below0(p) ==
  \/ p.cls = "inf" /\ p.neg
  \/ p.cls = "num" /\ p.neg /\ p.m > 0

-----------------------------------------------------------------------------
(* The sysfs paths, as format! builds them: the literal pieces and the     *)
(* decimal digits of the two indices.                                      *)

ChipDir(chip) == <<"/sys/class/pwm/pwmchip">> \o U8ToString(chip)

ChannelDir(chip, num) == ChipDir(chip) \o <<"/pwm">> \o U8ToString(num)

ExportFile(chip) == ChipDir(chip) \o <<"/export">>

UnexportFile(chip) == ChipDir(chip) \o <<"/unexport">>

PeriodFile(chip, num) == ChannelDir(chip, num) \o <<"/period">>

EnableFile(chip, num) == ChannelDir(chip, num) \o <<"/enable">>

DutyCycleFile(chip, num) == ChannelDir(chip, num) \o <<"/duty_cycle">>

-----------------------------------------------------------------------------
(* The file system.  A write is recorded as the file, the bytes and how it *)
(* went: "ok", or "err" when the file could not be opened or the write     *)
(* failed (the two are one Err to the caller).                             *)

PathExists(path) == path \in sysfs

WriteRec(path, data, io) == [path |-> path, data |-> data, io |-> io]

\* What the kernel allows: an attribute file of a channel can be opened
\* only while the channel's directory exists; a control file of the chip
\* is always there.  Any write may still fail.
Outcomes(dir) ==
  IF dir = <<>> \/ dir \in sysfs THEN {"ok", "err"} ELSE {"err"}

\* The kernel's side of a successful write of a channel number to a chip's
\* export (unexport) file: the channel's directory appears (disappears).
KernelExport(chip, data) == sysfs \cup {ChipDir(chip) \o <<"/pwm">> \o data}

KernelUnexport(chip, data) == sysfs \ {ChipDir(chip) \o <<"/pwm">> \o data}

\* util::write_file(data, path): open, write all, close; Ok or Err.
write_file(data, path, io) == WriteRec(path, data, io)

-----------------------------------------------------------------------------
(* The object.                                                             *)

\* The callers that may be inside set_export on the same channel at once,
\* each through a PWM object of its own made by new with the same two
\* indices.  set_export takes &self and assigns nothing, so the fields
\* above stand for either object.
Callers == {1, 2}

\* A caller not inside set_export.
Outside == [at |-> "outside", seen |-> 0]

Cache == [period |-> period, duty_cycle |-> duty_cycle, state |-> state]

\* A call as the caller sees it: the method, its argument, the Result, and
\* on the side the writes it made, the cached fields it started from and
\* whether the channel's directory existed when it started.
Returned(op, arg, ret, writes) ==
  calls' = Append(calls,
             [op |-> op, arg |-> arg, ret |-> ret, writes |-> writes,
              pre |-> Cache,
              existed |-> PathExists(ChannelDir(pwm_chip_num, pwm_num))])

Result(w) == IF w.io = "ok" THEN "Ok" ELSE "Err"

\* PWM::new(m_pwm_chip_num, m_pwm_num)
new(m_pwm_chip_num, m_pwm_num) ==
  /\ pwm_chip_num = m_pwm_chip_num
  /\ pwm_num = m_pwm_num
  /\ period = U32Zero
  /\ duty_cycle = U32Zero
  /\ state = "Disabled"
  /\ calls = <<>>

\* set_export without the existence checks: it writes whenever asked.
set_export_unchecked(requested, io) ==
  LET w == WriteRec(IF requested THEN ExportFile(pwm_chip_num)
                    ELSE UnexportFile(pwm_chip_num),
                    U8ToString(pwm_num), io)
  IN  /\ io \in Outcomes(<<>>)
      /\ sysfs' = IF io # "ok" THEN sysfs
                  ELSE IF requested THEN KernelExport(pwm_chip_num, w.data)
                  ELSE KernelUnexport(pwm_chip_num, w.data)
      /\ Returned("set_export", requested, Result(w), <<w>>)
      /\ UNCHANGED <<pwm_chip_num, pwm_num, period, duty_cycle, state>>

\* set_export sending the chip index where the channel index belongs.
set_export_chip_index(requested, io) ==
  LET path == ChannelDir(pwm_chip_num, pwm_num)
  IN  /\ IF requested /\ ~PathExists(path)
         THEN LET w == WriteRec(ExportFile(pwm_chip_num),
                                U8ToString(pwm_chip_num), io)
              IN  /\ io \in Outcomes(<<>>)
                  /\ sysfs' = IF io = "ok"
                              THEN KernelExport(pwm_chip_num, w.data)
                              ELSE sysfs
                  /\ Returned("set_export", requested, Result(w), <<w>>)
         ELSE IF ~requested /\ PathExists(path)
         THEN LET w == WriteRec(UnexportFile(pwm_chip_num),
                                U8ToString(pwm_chip_num), io)
              IN  /\ io \in Outcomes(<<>>)
                  /\ sysfs' = IF io = "ok"
                              THEN KernelUnexport(pwm_chip_num, w.data)
                              ELSE sysfs
                  /\ Returned("set_export", requested, Result(w), <<w>>)
         ELSE /\ io = "ok"
              /\ sysfs' = sysfs
              /\ Returned("set_export", requested, "Ok", <<>>)
      /\ UNCHANGED <<pwm_chip_num, pwm_num, period, duty_cycle, state>>

\* set_export dropping the result of its write: it returns Ok whether or
\* not the control file took the index.
set_export_swallowing(requested, io) ==
  LET path == ChannelDir(pwm_chip_num, pwm_num)
  IN  /\ IF requested /\ ~PathExists(path)
         THEN LET w == WriteRec(ExportFile(pwm_chip_num),
                                U8ToString(pwm_num), io)
              IN  /\ io \in Outcomes(<<>>)
                  /\ sysfs' = IF io = "ok"
                              THEN KernelExport(pwm_chip_num, w.data)
                              ELSE sysfs
                  /\ Returned("set_export", requested, "Ok", <<w>>)
         ELSE IF ~requested /\ PathExists(path)
         THEN LET w == WriteRec(UnexportFile(pwm_chip_num),
                                U8ToString(pwm_num), io)
              IN  /\ io \in Outcomes(<<>>)
                  /\ sysfs' = IF io = "ok"
                              THEN KernelUnexport(pwm_chip_num, w.data)
                              ELSE sysfs
                  /\ Returned("set_export", requested, "Ok", <<w>>)
         ELSE /\ io = "ok"
              /\ sysfs' = sysfs
              /\ Returned("set_export", requested, "Ok", <<>>)
      /\ UNCHANGED <<pwm_chip_num, pwm_num, period, duty_cycle, state>>

\* set_export starting the object afresh on a successful export: period,
\* duty cycle and state go back to what new gave them.
set_export_resetting(requested, io) ==
  LET path == ChannelDir(pwm_chip_num, pwm_num)
  IN  /\ IF requested /\ ~PathExists(path)
         THEN LET w == WriteRec(ExportFile(pwm_chip_num),
                                U8ToString(pwm_num), io)
              IN  /\ io \in Outcomes(<<>>)
                  /\ sysfs' = IF io = "ok"
                              THEN KernelExport(pwm_chip_num, w.data)
                              ELSE sysfs
                  /\ period' = IF io = "ok" THEN U32Zero ELSE period
                  /\ duty_cycle' = IF io = "ok" THEN U32Zero ELSE duty_cycle
                  /\ state' = IF io = "ok" THEN "Disabled" ELSE state
                  /\ Returned("set_export", requested, Result(w), <<w>>)
         ELSE IF ~requested /\ PathExists(path)
         THEN LET w == WriteRec(UnexportFile(pwm_chip_num),
                                U8ToString(pwm_num), io)
              IN  /\ io \in Outcomes(<<>>)
                  /\ sysfs' = IF io = "ok"
                              THEN KernelUnexport(pwm_chip_num, w.data)
                              ELSE sysfs
                  /\ Returned("set_export", requested, Result(w), <<w>>)
                  /\ UNCHANGED <<period, duty_cycle, state>>
         ELSE /\ io = "ok"
              /\ sysfs' = sysfs
              /\ Returned("set_export", requested, "Ok", <<>>)
              /\ UNCHANGED <<period, duty_cycle, state>>
      /\ UNCHANGED <<pwm_chip_num, pwm_num>>

\* PWM::set_export(&self, state)
set_export(requested, io) ==
  LET path == ChannelDir(pwm_chip_num, pwm_num)
  IN  /\ IF requested /\ ~PathExists(path)
         THEN LET w == WriteRec(ExportFile(pwm_chip_num),
                                U8ToString(pwm_num), io)
              IN  /\ io \in Outcomes(<<>>)
                  /\ sysfs' = IF io = "ok"
                              THEN KernelExport(pwm_chip_num, w.data)
                              ELSE sysfs
                  /\ Returned("set_export", requested, Result(w), <<w>>)
         ELSE IF ~requested /\ PathExists(path)
         THEN LET w == WriteRec(UnexportFile(pwm_chip_num),
                                U8ToString(pwm_num), io)
              IN  /\ io \in Outcomes(<<>>)
                  /\ sysfs' = IF io = "ok"
                              THEN KernelUnexport(pwm_chip_num, w.data)
                              ELSE sysfs
                  /\ Returned("set_export", requested, Result(w), <<w>>)
         ELSE /\ io = "ok"
              /\ sysfs' = sysfs
              /\ Returned("set_export", requested, "Ok", <<>>)
      /\ UNCHANGED <<pwm_chip_num, pwm_num, period, duty_cycle, state>>

\* set_period with the field assigned before the write is known to have
\* succeeded.
set_period_eager(period_ns, io) ==
  LET path == PeriodFile(pwm_chip_num, pwm_num)
      w    == write_file(U32ToString(period_ns), path, io)
  IN  /\ io \in Outcomes(ChannelDir(pwm_chip_num, pwm_num))
      /\ period' = period_ns
      /\ Returned("set_period", period_ns, Result(w), <<w>>)
      /\ UNCHANGED <<pwm_chip_num, pwm_num, duty_cycle, state, sysfs>>

\* What a caller's set_export leaves in calls: the call as Returned records
\* it, with the caller, the number of calls that had returned when it
\* tested the directory (seen), and whether the directory existed when it
\* wrote or returned (present).
ReturnedTo(t, requested, ret, writes, existed, seen) ==
  calls' = Append(calls,
                  [op |-> "set_export", arg |-> requested, ret |-> ret,
                   writes |-> writes, pre |-> Cache, existed |-> existed,
                   by |-> t, seen |-> seen,
                   present |-> PathExists(ChannelDir(pwm_chip_num, pwm_num))])

\* PWM::set_export, up to the branch taken: the two tests of path.exists().
\* The caller either enters the export branch, enters the unexport branch,
\* or falls through to Ok(()).
set_export_check(t, requested) ==
  LET path == ChannelDir(pwm_chip_num, pwm_num)
  IN  /\ pc[t].at = "outside"
      /\ IF requested /\ ~PathExists(path)
         THEN /\ pc' = [pc EXCEPT ![t] = [at |-> "export", seen |-> Len(calls)]]
              /\ UNCHANGED calls
         ELSE IF ~requested /\ PathExists(path)
         THEN /\ pc' = [pc EXCEPT ![t] = [at |-> "unexport",
                                          seen |-> Len(calls)]]
              /\ UNCHANGED calls
         ELSE /\ ReturnedTo(t, requested, "Ok", <<>>, PathExists(path),
                            Len(calls))
              /\ UNCHANGED pc
      /\ UNCHANGED <<pwm_chip_num, pwm_num, period, duty_cycle, state, sysfs>>

\* The branch of set_export looking at the directory again before it opens
\* the control file: a caller that finds the directory already as requested
\* returns Ok without writing.
set_export_write_arbitrated(t, io) ==
  LET requested == pc[t].at = "export"
      path      == ChannelDir(pwm_chip_num, pwm_num)
      w         == WriteRec(IF requested THEN ExportFile(pwm_chip_num)
                            ELSE UnexportFile(pwm_chip_num),
                            U8ToString(pwm_num), io)
  IN  /\ pc[t].at \in {"export", "unexport"}
      /\ IF requested = PathExists(path)
         THEN /\ io = "ok"
              /\ sysfs' = sysfs
              /\ ReturnedTo(t, requested, "Ok", <<>>, ~requested, pc[t].seen)
         ELSE /\ io \in Outcomes(<<>>)
              /\ sysfs' = IF io # "ok" THEN sysfs
                          ELSE IF requested
                               THEN KernelExport(pwm_chip_num, w.data)
                               ELSE KernelUnexport(pwm_chip_num, w.data)
              /\ ReturnedTo(t, requested, Result(w), <<w>>, ~requested,
                            pc[t].seen)
      /\ pc' = [pc EXCEPT ![t] = Outside]
      /\ UNCHANGED <<pwm_chip_num, pwm_num, period, duty_cycle, state>>

\* PWM::set_export, the branch entered: File::create on the control file,
\* write_all of the channel index, and the return.
set_export_write(t, io) ==
  LET requested == pc[t].at = "export"
      w         == WriteRec(IF requested THEN ExportFile(pwm_chip_num)
                            ELSE UnexportFile(pwm_chip_num),
                            U8ToString(pwm_num), io)
  IN  /\ pc[t].at \in {"export", "unexport"}
      /\ io \in Outcomes(<<>>)
      /\ sysfs' = IF io # "ok" THEN sysfs
                  ELSE IF requested THEN KernelExport(pwm_chip_num, w.data)
                  ELSE KernelUnexport(pwm_chip_num, w.data)
      /\ ReturnedTo(t, requested, Result(w), <<w>>, ~requested, pc[t].seen)
      /\ pc' = [pc EXCEPT ![t] = Outside]
      /\ UNCHANGED <<pwm_chip_num, pwm_num, period, duty_cycle, state>>

\* set_period keeping the duty cycle within the period: when the write
\* succeeds a cached duty cycle above period_ns is lowered to period_ns.
set_period_clamping(period_ns, io) ==
  LET path == PeriodFile(pwm_chip_num, pwm_num)
      w    == write_file(U32ToString(period_ns), path, io)
  IN  /\ io \in Outcomes(ChannelDir(pwm_chip_num, pwm_num))
      /\ period' = IF Result(w) = "Ok" THEN period_ns ELSE period
      /\ duty_cycle' = IF Result(w) = "Ok" /\ U32Lt(period_ns, duty_cycle)
                       THEN period_ns ELSE duty_cycle
      /\ Returned("set_period", period_ns, Result(w), <<w>>)
      /\ UNCHANGED <<pwm_chip_num, pwm_num, state, sysfs>>

\* PWM::set_period(&mut self, period_ns)
set_period(period_ns, io) ==
  LET path == PeriodFile(pwm_chip_num, pwm_num)
      w    == write_file(U32ToString(period_ns), path, io)
  IN  /\ io \in Outcomes(ChannelDir(pwm_chip_num, pwm_num))
      /\ period' = IF Result(w) = "Ok" THEN period_ns ELSE period
      /\ Returned("set_period", period_ns, Result(w), <<w>>)
      /\ UNCHANGED <<pwm_chip_num, pwm_num, duty_cycle, state, sysfs>>

\* set_state with the two texts exchanged.
set_state_swapped(new_state, io) ==
  LET path == EnableFile(pwm_chip_num, pwm_num)
      w    == write_file(IF new_state = "Enabled" THEN <<"0">> ELSE <<"1">>,
                         path, io)
  IN  /\ io \in Outcomes(ChannelDir(pwm_chip_num, pwm_num))
      /\ state' = IF Result(w) = "Ok" THEN new_state ELSE state
      /\ Returned("set_state", new_state, Result(w), <<w>>)
      /\ UNCHANGED <<pwm_chip_num, pwm_num, period, duty_cycle, sysfs>>

\* set_state keeping to exported channels: with the channel directory
\* absent it returns the error without attempting the write.
set_state_guarded(new_state, io) ==
  LET path == EnableFile(pwm_chip_num, pwm_num)
      w    == write_file(IF new_state = "Enabled" THEN <<"1">> ELSE <<"0">>,
                         path, io)
  IN  IF PathExists(ChannelDir(pwm_chip_num, pwm_num))
      THEN /\ io \in Outcomes(ChannelDir(pwm_chip_num, pwm_num))
           /\ state' = IF Result(w) = "Ok" THEN new_state ELSE state
           /\ Returned("set_state", new_state, Result(w), <<w>>)
           /\ UNCHANGED <<pwm_chip_num, pwm_num, period, duty_cycle, sysfs>>
      ELSE /\ io = "err"
           /\ Returned("set_state", new_state, "Err", <<>>)
           /\ UNCHANGED <<pwm_chip_num, pwm_num, period, duty_cycle, state,
                          sysfs>>

\* PWM::set_state(&mut self, state)
set_state(new_state, io) ==
  LET path == EnableFile(pwm_chip_num, pwm_num)
      w    == write_file(IF new_state = "Enabled" THEN <<"1">> ELSE <<"0">>,
                         path, io)
  IN  /\ io \in Outcomes(ChannelDir(pwm_chip_num, pwm_num))
      /\ state' = IF Result(w) = "Ok" THEN new_state ELSE state
      /\ Returned("set_state", new_state, Result(w), <<w>>)
      /\ UNCHANGED <<pwm_chip_num, pwm_num, period, duty_cycle, sysfs>>

\* ((percentage / 100.0) * (self.period as f32)) as u32
NewDutyCycle(percentage, period_ns) ==
  F32AsU32(F32Mul(F32DivBy100(percentage), F32FromU32(period_ns)))

\* write computing from the cached duty cycle instead of the cached period.
write_from_duty_cycle(percentage, io) ==
  LET path           == DutyCycleFile(pwm_chip_num, pwm_num)
      new_duty_cycle == NewDutyCycle(percentage, duty_cycle)
      w              == write_file(U32ToString(new_duty_cycle), path, io)
  IN  /\ io \in Outcomes(ChannelDir(pwm_chip_num, pwm_num))
      /\ duty_cycle' = IF Result(w) = "Ok" THEN new_duty_cycle ELSE duty_cycle
      /\ Returned("write", percentage, Result(w), <<w>>)
      /\ UNCHANGED <<pwm_chip_num, pwm_num, period, state, sysfs>>

\* write refusing, without a write, a percentage that is not a finite
\* number from 0 to 100.
write_validating(percentage, io) ==
  LET path           == DutyCycleFile(pwm_chip_num, pwm_num)
      new_duty_cycle == NewDutyCycle(percentage, period)
      w              == write_file(U32ToString(new_duty_cycle), path, io)
  IN  IF InPercentRange(percentage)
      THEN /\ io \in Outcomes(ChannelDir(pwm_chip_num, pwm_num))
           /\ duty_cycle' = IF Result(w) = "Ok" THEN new_duty_cycle
                            ELSE duty_cycle
           /\ Returned("write", percentage, Result(w), <<w>>)
           /\ UNCHANGED <<pwm_chip_num, pwm_num, period, state, sysfs>>
      ELSE /\ io = "err"
           /\ Returned("write", percentage, "Err", <<>>)
           /\ UNCHANGED <<pwm_chip_num, pwm_num, period, duty_cycle, state,
                          sysfs>>

\* PWM::write(&mut self, percentage)
write(percentage, io) ==
  LET path           == DutyCycleFile(pwm_chip_num, pwm_num)
      new_duty_cycle == NewDutyCycle(percentage, period)
      w              == write_file(U32ToString(new_duty_cycle), path, io)
  IN  /\ io \in Outcomes(ChannelDir(pwm_chip_num, pwm_num))
      /\ duty_cycle' = IF Result(w) = "Ok" THEN new_duty_cycle ELSE duty_cycle
      /\ Returned("write", percentage, Result(w), <<w>>)
      /\ UNCHANGED <<pwm_chip_num, pwm_num, period, state, sysfs>>

\* set_duty_cycle with the field assigned whether or not the write succeeded.
set_duty_cycle_eager(duty_cycle_ns, io) ==
  LET path == DutyCycleFile(pwm_chip_num, pwm_num)
      w    == write_file(U32ToString(duty_cycle_ns), path, io)
  IN  /\ io \in Outcomes(ChannelDir(pwm_chip_num, pwm_num))
      /\ duty_cycle' = duty_cycle_ns
      /\ Returned("set_duty_cycle", duty_cycle_ns, Result(w), <<w>>)
      /\ UNCHANGED <<pwm_chip_num, pwm_num, period, state, sysfs>>

\* set_duty_cycle refusing, without a write, a duty cycle over the period.
set_duty_cycle_bounded(duty_cycle_ns, io) ==
  LET path == DutyCycleFile(pwm_chip_num, pwm_num)
      w    == write_file(U32ToString(duty_cycle_ns), path, io)
  IN  IF U32Le(duty_cycle_ns, period)
      THEN /\ io \in Outcomes(ChannelDir(pwm_chip_num, pwm_num))
           /\ duty_cycle' = IF Result(w) = "Ok" THEN duty_cycle_ns
                            ELSE duty_cycle
           /\ Returned("set_duty_cycle", duty_cycle_ns, Result(w), <<w>>)
           /\ UNCHANGED <<pwm_chip_num, pwm_num, period, state, sysfs>>
      ELSE /\ io = "err"
           /\ Returned("set_duty_cycle", duty_cycle_ns, "Err", <<>>)
           /\ UNCHANGED <<pwm_chip_num, pwm_num, period, duty_cycle, state,
                          sysfs>>

\* PWM::set_duty_cycle(&mut self, duty_cycle_ns)
set_duty_cycle(duty_cycle_ns, io) ==
  LET path == DutyCycleFile(pwm_chip_num, pwm_num)
      w    == write_file(U32ToString(duty_cycle_ns), path, io)
  IN  /\ io \in Outcomes(ChannelDir(pwm_chip_num, pwm_num))
      /\ duty_cycle' = IF Result(w) = "Ok" THEN duty_cycle_ns ELSE duty_cycle
      /\ Returned("set_duty_cycle", duty_cycle_ns, Result(w), <<w>>)
      /\ UNCHANGED <<pwm_chip_num, pwm_num, period, state, sysfs>>

-----------------------------------------------------------------------------
(* The life of one channel object: any calls, in any order, each write     *)
(* succeeding or failing.                                                  *)

MaxCalls == 4

Channels == {<<0, 0>>}

Periods == {U32Of(500000), U32Of(200001)}

DutyCycles == {U32Of(300000)}

Percentages == {F32Lit(FALSE, 50, 0), F32Lit(FALSE, 150, 0)}

PWMStates == {"Enabled", "Disabled"}

IO == {"ok", "err"}

\* A fresh object on a channel nobody has exported.
Init ==
  /\ \E c \in Channels : new(c[1], c[2])
  /\ sysfs = {}
  /\ pc = [t \in Callers |-> Outside]

SetExport ==
  \E requested \in BOOLEAN, io \in IO :
    /\ Len(calls) < MaxCalls
    /\ set_export(requested, io)
    /\ UNCHANGED pc

SetPeriod ==
  \E period_ns \in Periods, io \in IO :
    /\ Len(calls) < MaxCalls
    /\ set_period(period_ns, io)
    /\ UNCHANGED pc

SetState ==
  \E new_state \in PWMStates, io \in IO :
    /\ Len(calls) < MaxCalls
    /\ set_state(new_state, io)
    /\ UNCHANGED pc

Write ==
  \E percentage \in Percentages, io \in IO :
    /\ Len(calls) < MaxCalls
    /\ write(percentage, io)
    /\ UNCHANGED pc

SetDutyCycle ==
  \E duty_cycle_ns \in DutyCycles, io \in IO :
    /\ Len(calls) < MaxCalls
    /\ set_duty_cycle(duty_cycle_ns, io)
    /\ UNCHANGED pc

Next == SetExport \/ SetPeriod \/ SetState \/ Write \/ SetDutyCycle

Spec == Init /\ [][Next]_vars

-----------------------------------------------------------------------------
(* The arithmetic of the setters: a fresh object on a channel that is      *)
(* already exported, fewer calls, and periods, duty cycles and percentages *)
(* from the corners of u32 and f32.                                        *)

MaxCalcCalls == 2

CalcChannels == {<<1, 10>>}

CalcPeriods ==
  { U32Of(1), U32Of(3), U32Of(200000), U32Of(500000),
    U32Of(16777215),          \* 2^24 - 1, the last u32 every f32 step reaches
    U32Of(16777217),          \* 2^24 + 1, rounds down as an f32
    U32Of(16777219),          \* 2^24 + 3, rounds up as an f32
    <<32767, 65535>>,         \* 2^31 - 1
    <<65535, 65407>>,         \* 2^32 - 129, rounds down to 2^32 - 256
    U32Max }                  \* 2^32 - 1, rounds up to 2^32

CalcDutyCycles == {U32Zero, U32Of(300000), U32Max}

CalcPercentages ==
  { F32Zero(FALSE), F32Zero(TRUE),
    F32Lit(FALSE, 25, 0), F32Lit(FALSE, 50, 0), F32Lit(FALSE, 100, 0),
    F32Num(FALSE, 8729395, -18),       \* 33.3
    F32Num(FALSE, 13107201, -17),      \* the f32 next above 100
    F32Lit(FALSE, 150, 0), F32Lit(FALSE, 200, 0),
    F32Num(FALSE, 16777215, 104),      \* f32::MAX
    F32Num(FALSE, 1, EMin),            \* the least positive f32
    F32Lit(TRUE, 50, 0),
    F32Num(TRUE, 1, EMin),
    F32Inf(FALSE), F32Inf(TRUE), F32NaN }

InitCalc ==
  /\ \E c \in CalcChannels : new(c[1], c[2])
  /\ sysfs = {ChannelDir(pwm_chip_num, pwm_num)}
  /\ pc = [t \in Callers |-> Outside]

CalcSetPeriod ==
  \E period_ns \in CalcPeriods, io \in IO :
    /\ Len(calls) < MaxCalcCalls
    /\ set_period(period_ns, io)
    /\ UNCHANGED pc

CalcWrite ==
  \E percentage \in CalcPercentages, io \in IO :
    /\ Len(calls) < MaxCalcCalls
    /\ write(percentage, io)
    /\ UNCHANGED pc

CalcSetDutyCycle ==
  \E duty_cycle_ns \in CalcDutyCycles, io \in IO :
    /\ Len(calls) < MaxCalcCalls
    /\ set_duty_cycle(duty_cycle_ns, io)
    /\ UNCHANGED pc

NextCalc == CalcSetPeriod \/ CalcWrite \/ CalcSetDutyCycle

SpecCalc == InitCalc /\ [][NextCalc]_vars

-----------------------------------------------------------------------------
(* Exporting and unexporting: a fresh object on any of several channels,   *)
(* chip and channel indices of one, two and three digits, with set_export  *)
(* and set_state called in any order.                                      *)

MaxExportCalls == 3

ExportChannels == {<<0, 0>>, <<0, 1>>, <<1, 10>>, <<7, 1>>, <<255, 7>>}

InitExport ==
  /\ \E c \in ExportChannels : new(c[1], c[2])
  /\ sysfs = {}
  /\ pc = [t \in Callers |-> Outside]

ExportSetExport ==
  \E requested \in BOOLEAN, io \in IO :
    /\ Len(calls) < MaxExportCalls
    /\ set_export(requested, io)
    /\ UNCHANGED pc

ExportSetState ==
  \E new_state \in PWMStates, io \in IO :
    /\ Len(calls) < MaxExportCalls
    /\ set_state(new_state, io)
    /\ UNCHANGED pc

NextExport == ExportSetExport \/ ExportSetState

SpecExport == InitExport /\ [][NextExport]_vars

-----------------------------------------------------------------------------
(* Two callers on one channel: each holds a PWM object for the same chip   *)
(* and channel and calls set_export, and the test of the directory and the *)
(* write that follows it are steps the other caller may run between.       *)

MaxRaceCalls == 3

RaceChannels == {<<0, 0>>, <<1, 10>>}

InitRace ==
  /\ \E c \in RaceChannels : new(c[1], c[2])
  /\ sysfs = {}
  /\ pc = [t \in Callers |-> Outside]

\* The calls begun: those that returned and those still inside.
Begun == Len(calls) + Cardinality({t \in Callers : pc[t].at # "outside"})

RaceCheck ==
  \E t \in Callers, requested \in BOOLEAN :
    /\ Begun < MaxRaceCalls
    /\ set_export_check(t, requested)

RaceWrite ==
  \E t \in Callers, io \in IO :
    set_export_write(t, io)

NextRace == RaceCheck \/ RaceWrite

SpecRace == InitRace /\ [][NextRace]_vars

-----------------------------------------------------------------------------
(* What the claims below read off a state.                                 *)

Setters == {"set_period", "set_state", "write", "set_duty_cycle"}

Called == Len(calls) > 0

Last == calls[Len(calls)]

\* The writes of the calls 1..n, in the order they were made.
RECURSIVE WritesUpTo(_)
WritesUpTo(n) == IF n = 0 THEN <<>> ELSE WritesUpTo(n - 1) \o calls[n].writes

AllWrites == WritesUpTo(Len(calls))

\* The bytes of the last successful write to a file among ws, or <<>>.
RECURSIVE LastWritten(_, _)
LastWritten(ws, path) ==
  IF ws = <<>> THEN <<>>
  ELSE IF ws[Len(ws)].path = path /\ ws[Len(ws)].io = "ok"
       THEN ws[Len(ws)].data
       ELSE LastWritten(SubSeq(ws, 1, Len(ws) - 1), path)

DigitValue(c) == CHOOSE d \in 0..9 : DigitChar(d) = c

\* The u32 a string of decimal digits denotes, as the kernel reads it.
RECURSIVE ParseU32(_)
ParseU32(str) ==
  IF str = <<>> THEN U32Zero
  ELSE LET u  == ParseU32(SubSeq(str, 1, Len(str) - 1))
           lo == u[2] * 10 + DigitValue(str[Len(str)])
       IN  <<u[1] * 10 + lo \div Limb, lo % Limb>>

\* The bytes that stand for a PWMState in the enable file.
StateText(st) == IF st = "Enabled" THEN <<"1">> ELSE <<"0">>

\* The text of the cached field a setter is responsible for.
FieldText(op) ==
  CASE op = "set_period" -> U32ToString(period)
    [] op = "set_state" -> StateText(state)
    [] op \in {"write", "set_duty_cycle"} -> U32ToString(duty_cycle)

-----------------------------------------------------------------------------
\* C1: a setter (set_period, set_state, write, set_duty_cycle) makes one
\* write; when that write fails the call returns Err and the cached period,
\* duty cycle and state are what they were before the call; when it
\* succeeds the call returns Ok and the setter's cached field holds the
\* value just written.  No call returns Err with a cached field changed or
\* Ok with its field not updated.
C1_SetterAllOrNothing ==
  (Called /\ Last.op \in Setters) =>
    /\ Len(Last.writes) = 1
    /\ LET w == Last.writes[1]
       IN  /\ w.io = "err" => (Last.ret = "Err" /\ Cache = Last.pre)
           /\ w.io = "ok" => (Last.ret = "Ok" /\ FieldText(Last.op) = w.data)
    /\ Last.ret = "Err" => Cache = Last.pre
    /\ Last.ret = "Ok" => FieldText(Last.op) = Last.writes[1].data

\* A failed set_period on an exported channel whose cache an earlier
\* successful set_period, with another value, had filled.
C1_Witness ==
  /\ Len(calls) >= 2
  /\ Last.op = "set_period" /\ Last.ret = "Err" /\ Last.existed
  /\ calls[Len(calls) - 1].op = "set_period"
  /\ calls[Len(calls) - 1].ret = "Ok"
  /\ calls[Len(calls) - 1].arg # Last.arg
  /\ period = calls[Len(calls) - 1].arg

-----------------------------------------------------------------------------
\* The end-to-end run: new(0, 0) on an unexported channel, then
\* set_export(true), set_period(500000), set_state(Enabled), write(50.0),
\* every one of them returning Ok.
C2_Scenario ==
  /\ pwm_chip_num = 0 /\ pwm_num = 0
  /\ Len(calls) = 4
  /\ calls[1].op = "set_export" /\ calls[1].arg = TRUE /\ ~calls[1].existed
  /\ calls[2].op = "set_period" /\ calls[2].arg = U32Of(500000)
  /\ calls[3].op = "set_state" /\ calls[3].arg = "Enabled"
  /\ calls[4].op = "write" /\ calls[4].arg = F32Lit(FALSE, 50, 0)
  /\ \A i \in 1..4 : calls[i].ret = "Ok"

C2_FinalCache ==
  /\ period = U32Of(500000)
  /\ duty_cycle = U32Of(250000)
  /\ state = "Enabled"

\* C2 as stated: the run ends with period 500000, duty cycle 250000, state
\* Enabled and exactly five file writes.
C2_FiveWrites ==
  C2_Scenario => (C2_FinalCache /\ Len(AllWrites) = 5)

\* C2, amended: the run ends with period 500000, duty cycle 250000, state
\* Enabled and exactly four file writes, to export, period, enable and
\* duty_cycle in that order, carrying "0", "500000", "1" and "250000".
C2_FourWrites ==
  C2_Scenario =>
    /\ C2_FinalCache
    /\ AllWrites =
         << WriteRec(<<"/sys/class/pwm/pwmchip", "0", "/export">>,
                     <<"0">>, "ok"),
            WriteRec(<<"/sys/class/pwm/pwmchip", "0", "/pwm", "0", "/period">>,
                     <<"5", "0", "0", "0", "0", "0">>, "ok"),
            WriteRec(<<"/sys/class/pwm/pwmchip", "0", "/pwm", "0", "/enable">>,
                     <<"1">>, "ok"),
            WriteRec(<<"/sys/class/pwm/pwmchip", "0", "/pwm", "0",
                       "/duty_cycle">>,
                     <<"2", "5", "0", "0", "0", "0">>, "ok") >>

C2_Witness == C2_Scenario /\ Len(AllWrites) = 4

-----------------------------------------------------------------------------
\* Two calls in a row, the second the last one made.
TwoExports(requested) ==
  /\ Len(calls) >= 2
  /\ calls[Len(calls) - 1].op = "set_export"
  /\ calls[Len(calls) - 1].arg = requested
  /\ Last.op = "set_export"
  /\ Last.arg = requested

\* C3 as stated: set_export(true) twice in succession writes the export
\* file at most once across the two calls.
C3_AtMostOneExportWrite ==
  TwoExports(TRUE) =>
    Len(calls[Len(calls) - 1].writes) + Len(Last.writes) <= 1

\* C3, amended: of two set_export(true) calls in succession, when the first
\* returns Ok the directory exists and the second writes nothing and returns
\* Ok, so the export file is written at most once; when the first one's
\* write fails the directory is still absent and the second call writes the
\* export file again.
C3_SecondExportIsNoOp ==
  TwoExports(TRUE) =>
    LET first == calls[Len(calls) - 1]
    IN  /\ first.ret = "Ok" =>
             (Last.existed /\ Last.writes = <<>> /\ Last.ret = "Ok")
        /\ first.ret = "Err" =>
             (/\ ~Last.existed
              /\ Len(first.writes) = 1 /\ Len(Last.writes) = 1
              /\ Last.writes[1].path = ExportFile(pwm_chip_num)
              /\ Last.writes[1].data = first.writes[1].data)
        /\ \A w \in {first.writes[i] : i \in 1..Len(first.writes)} :
             w.path = ExportFile(pwm_chip_num)

\* The first call exported the channel, the second found it exported.
C3_Witness ==
  /\ TwoExports(TRUE)
  /\ Len(calls[Len(calls) - 1].writes) = 1
  /\ calls[Len(calls) - 1].ret = "Ok"
  /\ Last.writes = <<>>

-----------------------------------------------------------------------------
\* C4: set_export(false) on a channel whose directory does not exist makes
\* no write and returns Ok.
C4_UnexportAbsentIsNoOp ==
  (Called /\ Last.op = "set_export" /\ Last.arg = FALSE /\ ~Last.existed) =>
    (Last.writes = <<>> /\ Last.ret = "Ok")

\* set_export(false) right after an unexport that succeeded.
C4_Witness ==
  /\ TwoExports(FALSE)
  /\ calls[Len(calls) - 1].existed
  /\ calls[Len(calls) - 1].ret = "Ok"
  /\ ~Last.existed
  /\ Last.ret = "Ok"

-----------------------------------------------------------------------------
\* The argument of the last call of a method that returned Ok among the
\* calls 1..n, or a default.
RECURSIVE LastOkArg(_, _, _)
LastOkArg(n, op, default) ==
  IF n = 0 THEN default
  ELSE IF calls[n].op = op /\ calls[n].ret = "Ok" THEN calls[n].arg
       ELSE LastOkArg(n - 1, op, default)

\* The u32 last written with success to a file, or 0.
LastWrittenU32(ws, path) ==
  IF LastWritten(ws, path) = <<>> THEN U32Zero
  ELSE ParseU32(LastWritten(ws, path))

\* C5: whatever calls were made and however each write went, the cached
\* period, duty cycle and state are the values of this object's last
\* successful writes to the period, duty_cycle and enable files, or 0, 0 and
\* Disabled where no such write succeeded; the cached state is the argument
\* of the last set_state that returned Ok.
C5_CacheIsLastWritten ==
  LET en == LastWritten(AllWrites, EnableFile(pwm_chip_num, pwm_num))
  IN  /\ period = LastWrittenU32(AllWrites, PeriodFile(pwm_chip_num, pwm_num))
      /\ duty_cycle =
           LastWrittenU32(AllWrites, DutyCycleFile(pwm_chip_num, pwm_num))
      /\ en \in {<<>>, <<"0">>, <<"1">>}
      /\ state = (IF en = <<"1">> THEN "Enabled" ELSE "Disabled")
      /\ state = LastOkArg(Len(calls), "set_state", "Disabled")

\* Period and state written, then a set_state(Disabled) that failed on the
\* exported channel.
C5_Witness ==
  /\ Len(calls) >= 2
  /\ period # U32Zero /\ state = "Enabled"
  /\ Last.ret = "Err" /\ Last.existed
  /\ Last.op = "set_state" /\ Last.arg = "Disabled"

-----------------------------------------------------------------------------
\* The number a write call put in the duty_cycle file.
Sent == ParseU32(Last.writes[1].data)

\* C6: for every cached period and every percentage in [0, 100], the duty
\* cycle that write(percentage) computes, writes and caches is at most the
\* period.
C6_DutyWithinPeriod ==
  (Called /\ Last.op = "write" /\ InPercentRange(Last.arg)) =>
    /\ U32Le(Sent, Last.pre.period)
    /\ Last.ret = "Ok" => U32Le(duty_cycle, period)

-----------------------------------------------------------------------------
\* The cached period a write call started from, read off the history: the
\* argument of the last set_period before it that returned Ok, or 0.
PeriodBeforeLast == LastOkArg(Len(calls) - 1, "set_period", U32Zero)

\* Percentages p for which p / 100.0 is a number of quarters.
QuarterPercents == {0, 25, 50, 75, 100, 125, 150, 175, 200}

\* C7: write(percentage) makes one write, of the duty_cycle file; the
\* number sent is (percentage / 100.0) * period_ns rounded toward zero, where
\* period_ns is the value of the last set_period that succeeded (one that
\* failed since does not count); on success that number is cached.
\* write(50.0) after a successful set_period(500000) writes "250000" and
\* caches 250000.
C7_WriteFromCachedPeriod ==
  (Called /\ Last.op = "write") =>
    LET P == PeriodBeforeLast
    IN  /\ Len(Last.writes) = 1
        /\ Last.writes[1].path = DutyCycleFile(pwm_chip_num, pwm_num)
        /\ P = LastWrittenU32(WritesUpTo(Len(calls) - 1),
                              PeriodFile(pwm_chip_num, pwm_num))
        /\ Last.writes[1].data = U32ToString(NewDutyCycle(Last.arg, P))
        /\ \A n \in QuarterPercents :
             (Last.arg = F32Lit(FALSE, n, 0) /\ P[1] < 16) =>
               Sent = U32Of((n * (P[1] * Limb + P[2])) \div 100)
        /\ (Last.arg = F32Lit(FALSE, 50, 0) /\ P = U32Of(500000)) =>
             Last.writes[1].data = <<"2", "5", "0", "0", "0", "0">>
        /\ Last.ret = "Ok" => duty_cycle = Sent
        /\ Last.ret = "Err" => duty_cycle = Last.pre.duty_cycle

\* set_period(500000) succeeded, set_period(200001) failed, and write(50.0)
\* then wrote and cached 250000.
C7_Witness ==
  /\ Len(calls) >= 3
  /\ calls[Len(calls) - 2].op = "set_period"
  /\ calls[Len(calls) - 2].arg = U32Of(500000)
  /\ calls[Len(calls) - 2].ret = "Ok"
  /\ calls[Len(calls) - 1].op = "set_period"
  /\ calls[Len(calls) - 1].arg = U32Of(200001)
  /\ calls[Len(calls) - 1].ret = "Err"
  /\ calls[Len(calls) - 1].existed
  /\ Last.op = "write" /\ Last.ret = "Ok"
  /\ duty_cycle = U32Of(250000)

-----------------------------------------------------------------------------
\* C8: with a cached period of 0, write(percentage) sends "0" to the
\* duty_cycle file whatever the percentage (NaN and the infinities
\* included), and fails exactly when the write fails.
C8_ZeroPeriodGivesZero ==
  (Called /\ Last.op = "write" /\ Last.pre.period = U32Zero) =>
    /\ Len(Last.writes) = 1
    /\ Last.writes[1].path = DutyCycleFile(pwm_chip_num, pwm_num)
    /\ Last.writes[1].data = <<"0">>
    /\ Last.ret = "Err" <=> Last.writes[1].io = "err"
    /\ Last.ret = "Ok" => duty_cycle = U32Zero

\* write(+infinity) with no period set, overwriting a cached duty cycle.
C8_Witness ==
  /\ Called /\ Last.op = "write" /\ Last.pre.period = U32Zero
  /\ Last.arg = F32Inf(FALSE)
  /\ Last.pre.duty_cycle # U32Zero
  /\ Last.ret = "Ok" /\ duty_cycle = U32Zero

-----------------------------------------------------------------------------
\* C9 as stated: write does not reject a percentage outside [0, 100]; with
\* a non-zero cached period a percentage above 100 sends a value over the
\* period and a percentage below 0 sends a negative value.
C9_OverPeriodOrNegative ==
  (Called /\ Last.op = "write" /\ Last.pre.period # U32Zero) =>
    /\ Len(Last.writes) = 1
    /\ Above100(Last.arg) => U32Lt(Last.pre.period, Sent)
    /\ Below0(Last.arg) => Last.writes[1].data[1] = "-"

\* C9, amended: write does not reject a percentage outside [0, 100]: it
\* makes its one write of the duty_cycle file all the same.  With a
\* non-zero cached period, a percentage above 100 sends a value that is at
\* least the period (150% of 500000 sends "750000"; the cast stops at
\* 4294967295), and a percentage below 0 sends "0": the value is a u32 and
\* is never negative.
C9_OverPeriodOrZero ==
  (Called /\ Last.op = "write" /\ Last.pre.period # U32Zero) =>
    LET w == Last.writes[1]
    IN  /\ Len(Last.writes) = 1
        /\ w.path = DutyCycleFile(pwm_chip_num, pwm_num)
        /\ \A i \in 1..Len(w.data) : w.data[i] \in {DigitChar(d) : d \in 0..9}
        /\ Above100(Last.arg) => U32Le(Last.pre.period, Sent)
        /\ (Last.arg = F32Lit(FALSE, 150, 0)
              /\ Last.pre.period = U32Of(500000)) =>
             w.data = <<"7", "5", "0", "0", "0", "0">>
        /\ (Last.arg.cls = "inf" /\ ~Last.arg.neg) => Sent = U32Max
        /\ Below0(Last.arg) => w.data = <<"0">>
        /\ Last.ret = "Ok" => duty_cycle = Sent

\* write(-50.0) with a period of 500000 wrote and cached 0 over a cached
\* duty cycle.
C9_Witness ==
  /\ Called /\ Last.op = "write"
  /\ Last.pre.period = U32Of(500000)
  /\ Last.arg = F32Lit(TRUE, 50, 0)
  /\ Last.ret = "Ok"
  /\ duty_cycle = U32Zero

-----------------------------------------------------------------------------
\* C10: set_duty_cycle(duty_cycle_ns) makes one write, of the decimal text
\* of duty_cycle_ns to the duty_cycle file, whatever the cached period, and
\* caches duty_cycle_ns when the write succeeds; nothing compares it with
\* the period.
C10_DutyCycleVerbatim ==
  (Called /\ Last.op = "set_duty_cycle") =>
    LET w == Last.writes[1]
    IN  /\ Len(Last.writes) = 1
        /\ w.path = DutyCycleFile(pwm_chip_num, pwm_num)
        /\ Sent = Last.arg
        /\ Last.arg = U32Of(300000) => w.data = <<"3", "0", "0", "0", "0", "0">>
        /\ Last.arg = U32Max =>
             w.data = <<"4", "2", "9", "4", "9", "6", "7", "2", "9", "5">>
        /\ Last.ret = "Ok" <=> w.io = "ok"
        /\ Last.ret = "Ok" => duty_cycle = Last.arg
        /\ Last.ret = "Err" => duty_cycle = Last.pre.duty_cycle

\* set_duty_cycle(300000) succeeded under a cached period of 200000: the
\* cached duty cycle exceeds the cached period.
C10_Witness ==
  /\ Called /\ Last.op = "set_duty_cycle" /\ Last.ret = "Ok"
  /\ period = U32Of(200000)
  /\ duty_cycle = U32Of(300000)
  /\ U32Lt(period, duty_cycle)

-----------------------------------------------------------------------------
\* The file a setter writes.
FieldFile(op) ==
  CASE op = "set_period" -> PeriodFile(pwm_chip_num, pwm_num)
    [] op = "set_state" -> EnableFile(pwm_chip_num, pwm_num)
    [] op \in {"write", "set_duty_cycle"} ->
         DutyCycleFile(pwm_chip_num, pwm_num)

\* C11: the object keeps no record of export.  A setter (set_period,
\* set_state, write, set_duty_cycle) called while the channel directory
\* does not exist, never exported or unexported again, still attempts its
\* one write, to its own file; that write fails, the call returns Err, and
\* the cached period, duty cycle and state are what they were.
C11_SetterOnAbsentChannel ==
  (Called /\ Last.op \in Setters /\ ~Last.existed) =>
    /\ Len(Last.writes) = 1
    /\ Last.writes[1].path = FieldFile(Last.op)
    /\ Last.writes[1].io = "err"
    /\ Last.ret = "Err"
    /\ Cache = Last.pre

\* The channel was exported, its period set, and it was unexported again;
\* the setter called next attempted its write and failed.
C11_Witness ==
  /\ Len(calls) = 4
  /\ calls[1].op = "set_export" /\ calls[1].arg /\ calls[1].ret = "Ok"
  /\ calls[2].op = "set_period" /\ calls[2].ret = "Ok"
  /\ calls[3].op = "set_export" /\ ~calls[3].arg /\ calls[3].ret = "Ok"
  /\ Last.op \in Setters /\ ~Last.existed
  /\ Len(Last.writes) = 1 /\ Last.ret = "Err"
  /\ period # U32Zero

-----------------------------------------------------------------------------
\* C12: set_export writes exactly when the requested existence differs from
\* the directory's existence at the call.  Requested true with the
\* directory absent: one write, of the decimal channel index, to
\* /sys/class/pwm/pwmchipC/export.  Requested false with the directory
\* present: one write, of the decimal channel index, to
\* /sys/class/pwm/pwmchipC/unexport.  In the two other cases no file is
\* written.
C12_ExportWritesOnDifference ==
  (Called /\ Last.op = "set_export") =>
    /\ (Last.writes # <<>>) <=> (Last.arg # Last.existed)
    /\ Len(Last.writes) <= 1
    /\ Last.writes # <<>> =>
         LET w == Last.writes[1]
         IN  /\ w.path = <<"/sys/class/pwm/pwmchip">>
                           \o U8ToString(pwm_chip_num)
                           \o <<(IF Last.arg THEN "/export" ELSE "/unexport")>>
             /\ w.data = U8ToString(pwm_num)
             /\ <<pwm_chip_num, pwm_num>> = <<1, 10>> =>
                  /\ w.data = <<"1", "0">>
                  /\ w.path[2] = "1"
             /\ <<pwm_chip_num, pwm_num>> = <<255, 7>> =>
                  /\ w.data = <<"7">>
                  /\ SubSeq(w.path, 2, 4) = <<"2", "5", "5">>

\* Channel 10 of chip 1 was exported and then unexported, each by a write
\* of "10" that succeeded, and a second unexport wrote nothing.
C12_Witness ==
  /\ Len(calls) = 3
  /\ <<pwm_chip_num, pwm_num>> = <<1, 10>>
  /\ calls[1].op = "set_export" /\ calls[1].arg /\ ~calls[1].existed
  /\ calls[1].writes =
       <<[path |-> <<"/sys/class/pwm/pwmchip", "1", "/export">>,
          data |-> <<"1", "0">>, io |-> "ok"]>>
  /\ calls[2].op = "set_export" /\ ~calls[2].arg /\ calls[2].existed
  /\ calls[2].writes =
       <<[path |-> <<"/sys/class/pwm/pwmchip", "1", "/unexport">>,
          data |-> <<"1", "0">>, io |-> "ok"]>>
  /\ Last.op = "set_export" /\ ~Last.arg /\ ~Last.existed
  /\ Last.writes = <<>>

-----------------------------------------------------------------------------
\* C13: every call attempts at most one file write and never retries; a
\* call whose attempted write (or the open of its file) fails returns Err;
\* and a call returns Ok without a successful write only when it is a
\* set_export that found the directory already in the requested state.
C13_NoRetryNoSwallow ==
  \A i \in 1..Len(calls) :
    LET c == calls[i]
    IN  /\ Len(c.writes) <= 1
        /\ (c.writes # <<>> /\ c.writes[1].io = "err") => c.ret = "Err"
        /\ (c.ret = "Ok" /\ c.writes # <<>>) => c.writes[1].io = "ok"
        /\ (c.ret = "Ok" /\ c.writes = <<>>) =>
             (c.op = "set_export" /\ c.arg = c.existed)

\* An export write failed and returned Err, the export tried again
\* succeeded, a third export returned Ok without a write, and a setter's
\* write failed and returned Err.
C13_Witness ==
  /\ Len(calls) = 4
  /\ calls[1].op = "set_export" /\ calls[1].arg
  /\ Len(calls[1].writes) = 1 /\ calls[1].ret = "Err"
  /\ calls[2].op = "set_export" /\ calls[2].arg
  /\ Len(calls[2].writes) = 1 /\ calls[2].ret = "Ok"
  /\ calls[3].op = "set_export" /\ calls[3].arg
  /\ calls[3].writes = <<>> /\ calls[3].ret = "Ok"
  /\ Last.op \in Setters
  /\ Len(Last.writes) = 1 /\ Last.writes[1].io = "err" /\ Last.ret = "Err"

-----------------------------------------------------------------------------
\* C14: a step of set_export, whether it exports, unexports, does nothing
\* or fails, leaves the chip index, the channel index, the period, the duty
\* cycle and the state as they were, so an unexport followed by a re-export
\* does not put the cache back to its defaults; and no step of any operation
\* changes the chip index or the channel index.
C14_ExportKeepsFields ==
  [][ /\ pwm_chip_num' = pwm_chip_num
      /\ pwm_num' = pwm_num
      /\ (Len(calls') = Len(calls) + 1 /\ Last'.op = "set_export") =>
           /\ period' = period
           /\ duty_cycle' = duty_cycle
           /\ state' = state
           /\ Last'.pre = Cache' ]_vars

\* The channel was exported, a period set on it, then it was unexported and
\* exported again, each write succeeding: the cached period is still the
\* one set, not the default.
C14_Witness ==
  /\ Len(calls) = 4
  /\ calls[1].op = "set_export" /\ calls[1].arg /\ calls[1].ret = "Ok"
  /\ calls[2].op = "set_period" /\ calls[2].ret = "Ok"
  /\ calls[3].op = "set_export" /\ ~calls[3].arg /\ calls[3].ret = "Ok"
  /\ Len(calls[3].writes) = 1
  /\ Last.op = "set_export" /\ Last.arg /\ Last.ret = "Ok"
  /\ Len(Last.writes) = 1
  /\ period = calls[2].arg /\ period # U32Zero

-----------------------------------------------------------------------------
\* C15: with the channel to itself, and a kernel that creates the channel
\* directory on a successful export write and removes it on a successful
\* unexport write, the channel directory exists when set_export(true)
\* returns Ok and does not exist when set_export(false) returns Ok.
C15_OkMeansRequestedState ==
  (Called /\ Last.op = "set_export" /\ Last.ret = "Ok") =>
    (PathExists(ChannelDir(pwm_chip_num, pwm_num)) <=> Last.arg)

\* set_export(true) returned Ok after a write on an absent directory, and
\* the set_export(false) after it returned Ok after a write that removed
\* the directory.
C15_Witness ==
  /\ Len(calls) >= 2
  /\ calls[Len(calls) - 1].op = "set_export"
  /\ calls[Len(calls) - 1].arg /\ ~calls[Len(calls) - 1].existed
  /\ calls[Len(calls) - 1].ret = "Ok"
  /\ Last.op = "set_export" /\ ~Last.arg /\ Last.existed
  /\ Last.ret = "Ok"
  /\ ~PathExists(ChannelDir(pwm_chip_num, pwm_num))

-----------------------------------------------------------------------------
\* C16: each setter changes only its own cached field.  set_period leaves
\* the duty cycle and the state as they were, set_state the period and the
\* duty cycle, write and set_duty_cycle the period and the state.  So a
\* successful set_period(p) with p below the cached duty cycle leaves that
\* duty cycle in place, above the new period.
C16_SetterOwnFieldOnly ==
  (Called /\ Last.op \in Setters) =>
    /\ Last.op = "set_period" =>
         /\ duty_cycle = Last.pre.duty_cycle
         /\ state = Last.pre.state
    /\ Last.op = "set_state" =>
         /\ period = Last.pre.period
         /\ duty_cycle = Last.pre.duty_cycle
    /\ Last.op \in {"write", "set_duty_cycle"} =>
         /\ period = Last.pre.period
         /\ state = Last.pre.state
    /\ (Last.op = "set_period" /\ Last.ret = "Ok"
          /\ U32Lt(Last.arg, Last.pre.duty_cycle)) =>
         /\ period = Last.arg
         /\ U32Lt(period, duty_cycle)

\* With the state Enabled and a duty cycle of 300000 cached, set_period(200001)
\* succeeded: the duty cycle is still 300000, over the period, and the state
\* still Enabled.
C16_Witness ==
  /\ Called /\ Last.op = "set_period" /\ Last.ret = "Ok"
  /\ Last.arg = U32Of(200001)
  /\ Last.pre.duty_cycle = U32Of(300000)
  /\ Last.pre.state = "Enabled"
  /\ period = U32Of(200001)
  /\ duty_cycle = U32Of(300000)
  /\ state = "Enabled"

-----------------------------------------------------------------------------
\* The call that returned i-th ran with no other call returning between its
\* test of the directory and its own return.
Undisturbed(i) == calls[i].seen = i - 1

\* C17: inside set_export the test of the directory and the write are two
\* steps with nothing arbitrating between callers.  What a caller saw when
\* it tested decides alone whether it writes: a caller that saw the
\* directory absent writes the export file even when the directory exists
\* by then.  A write made on an observation that no longer holds, and a
\* second export write after one that succeeded with no unexport between,
\* occur only in a call that another call ran inside of: calls made one
\* after the other keep to at most one export write.
C17_WriteFollowsObservation ==
  \A i \in 1..Len(calls) :
    LET c == calls[i]
    IN  /\ (c.writes # <<>>) <=> (c.arg # c.existed)
        /\ c.writes # <<>> =>
             /\ Len(c.writes) = 1
             /\ c.writes[1].path = IF c.arg THEN ExportFile(pwm_chip_num)
                                   ELSE UnexportFile(pwm_chip_num)
        /\ Undisturbed(i) => c.present = c.existed
        /\ \A j \in 1..(i - 1) :
             ( /\ calls[j].arg /\ calls[j].writes # <<>>
               /\ calls[j].ret = "Ok"
               /\ c.arg /\ c.writes # <<>>
               /\ \A k \in (j + 1)..(i - 1) :
                    ~(~calls[k].arg /\ calls[k].writes # <<>>
                        /\ calls[k].ret = "Ok") )
             => ~Undisturbed(i)

\* From the unexported state both callers tested the directory before
\* either wrote: both saw it absent and both wrote the export file, the
\* second onto a channel the first's write had already exported.
C17_Witness ==
  /\ Len(calls) = 2
  /\ calls[1].by # calls[2].by
  /\ \A i \in {1, 2} :
       /\ calls[i].op = "set_export" /\ calls[i].arg
       /\ ~calls[i].existed
       /\ calls[i].seen = 0
       /\ Len(calls[i].writes) = 1
       /\ calls[i].writes[1].path = ExportFile(pwm_chip_num)
       /\ calls[i].writes[1].data = U8ToString(pwm_num)
  /\ calls[1].ret = "Ok"
  /\ calls[2].present
  /\ calls[2].ret = "Err"

=============================================================================
